---- MODULE Spec2Model ----
(***************************************************************************)
(* Model of the ActiveSG forwarding service (src/app.py): four Flask       *)
(* handlers that each build one upstream URL, issue one requests.get with  *)
(* the shared BROWSER_HEADERS, and relay the decoded JSON or a normalised  *)
(* error.  Strings that the code inspects character by character (the      *)
(* sport parameter, the percent-encoded "input" payload of the URL) are    *)
(* sequences of one-character strings; JSON texts are sequences of tokens. *)
(***************************************************************************)
EXTENDS Integers, Sequences, FiniteSets, TLC

(***************************************************************************)
(* Bounds                                                                  *)
(***************************************************************************)
\* number of inbound calls the server handles at the same time
NumCalls == 2
\* longest sport string drawn as an input
MaxSportLen == 3

Calls == 1..NumCalls

(***************************************************************************)
(* Module-level data of app.py                                             *)
(***************************************************************************)
\* app.py:16-27, the header template (a dict, i.e. a function on its keys)
BROWSER_HEADERS ==
    [ UserAgent      |-> "Mozilla/5.0 (Windows NT 10.0; Win64; x64; rv:109.0) Gecko/20100101 Firefox/117.0",
      Accept         |-> "application/json, text/plain, */*",
      AcceptLanguage |-> "en-US,en;q=0.5",
      AcceptEncoding |-> "gzip, deflate, br",
      Connection     |-> "keep-alive",
      Pragma         |-> "no-cache",
      CacheControl   |-> "no-cache" ]

\* app.py:30
ACTIVESG_BASE_URL == "https://activesg.gov.sg/api/trpc"

\* the routes of app.py:39, 65, 87, 116
Ops == {"venues", "sportslist", "activity", "capacity"}

(***************************************************************************)
(* The value of the "input" query parameter of each upstream URL, as the   *)
(* characters written in the source.                                       *)
(***************************************************************************)
\* app.py:45
VenuesInput ==
    <<
       "%", "7", "B", "%", "2", "2", "j", "s", "o", "n", "%", "2", "2", "%", "3", "A",
       "n", "u", "l", "l", "%", "2", "C", "%", "2", "2", "m", "e", "t", "a", "%", "2",
       "2", "%", "3", "A", "%", "7", "B", "%", "2", "2", "v", "a", "l", "u", "e", "s",
       "%", "2", "2", "%", "3", "A", "%", "5", "B", "%", "2", "2", "u", "n", "d", "e",
       "f", "i", "n", "e", "d", "%", "2", "2", "%", "5", "D", "%", "7", "D", "%", "7",
       "D"
    >>
\* app.py:71
SportslistInput ==
    <<
       "%", "7", "B", "%", "2", "2", "j", "s", "o", "n", "%", "2", "2", "%", "3", "A",
       "n", "u", "l", "l", "%", "2", "C", "%", "2", "2", "m", "e", "t", "a", "%", "2",
       "2", "%", "3", "A", "%", "7", "B", "%", "2", "2", "v", "a", "l", "u", "e", "s",
       "%", "2", "2", "%", "3", "A", "%", "5", "B", "%", "2", "2", "u", "n", "d", "e",
       "f", "i", "n", "e", "d", "%", "2", "2", "%", "5", "D", "%", "7", "D", "%", "7",
       "D"
    >>
\* app.py:122
CapacityInput ==
    <<
       "%", "7", "B", "%", "2", "2", "j", "s", "o", "n", "%", "2", "2", "%", "3", "A",
       "n", "u", "l", "l", "%", "2", "C", "%", "2", "2", "m", "e", "t", "a", "%", "2",
       "2", "%", "3", "A", "%", "7", "B", "%", "2", "2", "v", "a", "l", "u", "e", "s",
       "%", "2", "2", "%", "3", "A", "%", "5", "B", "%", "2", "2", "u", "n", "d", "e",
       "f", "i", "n", "e", "d", "%", "2", "2", "%", "5", "D", "%", "7", "D", "%", "7",
       "D"
    >>
\* app.py:100, up to {encoded_sport}
ActivityInputPrefix ==
    <<
       "%", "7", "B", "%", "2", "2", "j", "s", "o", "n", "%", "2", "2", "%", "3", "A",
       "%", "7", "B", "%", "2", "2", "s", "e", "a", "r", "c", "h", "Q", "u", "e", "r",
       "y", "%", "2", "2", "%", "3", "A", "%", "2", "2"
    >>
\* app.py:100, after {encoded_sport}
ActivityInputSuffix ==
    <<
       "%", "2", "2", "%", "2", "C", "%", "2", "2", "v", "e", "n", "u", "e", "I", "d",
       "%", "2", "2", "%", "3", "A", "n", "u", "l", "l", "%", "2", "C", "%", "2", "2",
       "m", "i", "n", "A", "g", "e", "F", "i", "l", "t", "e", "r", "%", "2", "2", "%",
       "3", "A", "n", "u", "l", "l", "%", "2", "C", "%", "2", "2", "m", "a", "x", "A",
       "g", "e", "F", "i", "l", "t", "e", "r", "%", "2", "2", "%", "3", "A", "n", "u",
       "l", "l", "%", "2", "C", "%", "2", "2", "s", "e", "x", "F", "i", "l", "t", "e",
       "r", "%", "2", "2", "%", "3", "A", "n", "u", "l", "l", "%", "2", "C", "%", "2",
       "2", "p", "o", "s", "t", "a", "l", "C", "o", "d", "e", "%", "2", "2", "%", "3",
       "A", "n", "u", "l", "l", "%", "2", "C", "%", "2", "2", "f", "i", "r", "s", "t",
       "S", "e", "s", "s", "i", "o", "n", "F", "r", "o", "m", "D", "a", "t", "e", "%",
       "2", "2", "%", "3", "A", "n", "u", "l", "l", "%", "2", "C", "%", "2", "2", "l",
       "a", "s", "t", "S", "e", "s", "s", "i", "o", "n", "T", "i", "l", "l", "D", "a",
       "t", "e", "%", "2", "2", "%", "3", "A", "n", "u", "l", "l", "%", "2", "C", "%",
       "2", "2", "l", "i", "m", "i", "t", "%", "2", "2", "%", "3", "A", "1", "0", "%",
       "2", "C", "%", "2", "2", "c", "u", "r", "s", "o", "r", "%", "2", "2", "%", "3",
       "A", "n", "u", "l", "l", "%", "7", "D", "%", "2", "C", "%", "2", "2", "m", "e",
       "t", "a", "%", "2", "2", "%", "3", "A", "%", "7", "B", "%", "2", "2", "v", "a",
       "l", "u", "e", "s", "%", "2", "2", "%", "3", "A", "%", "7", "B", "%", "2", "2",
       "c", "u", "r", "s", "o", "r", "%", "2", "2", "%", "3", "A", "%", "5", "B", "%",
       "2", "2", "u", "n", "d", "e", "f", "i", "n", "e", "d", "%", "2", "2", "%", "5",
       "D", "%", "7", "D", "%", "7", "D", "%", "7", "D"
    >>

(***************************************************************************)
(* urllib.parse.quote_plus, as get_activity uses it (app.py:99).           *)
(***************************************************************************)
\* characters quote() never escapes (the ones that occur in the model)
Unreserved ==
    {"a", "b", "c", "d", "e", "f", "g", "h", "i", "j", "k", "l", "m", "n",
     "o", "p", "q", "r", "s", "t", "u", "v", "w", "x", "y", "z",
     "A", "B", "C", "D", "E", "F", "G", "H", "I", "J", "K", "L", "M", "N",
     "O", "P", "Q", "R", "S", "T", "U", "V", "W", "X", "Y", "Z",
     "0", "1", "2", "3", "4", "5", "6", "7", "8", "9", "_", ".", "-", "~"}

\* the two upper-case hex digits of the escaped characters of the model
HexOf ==
    [ ch \in {" ", "\"", "%", "&", "+", ",", ":", "[", "]", "{", "}"} |->
        CASE ch = " "  -> <<"2", "0">>
          [] ch = "\"" -> <<"2", "2">>
          [] ch = "%"  -> <<"2", "5">>
          [] ch = "&"  -> <<"2", "6">>
          [] ch = "+"  -> <<"2", "B">>
          [] ch = ","  -> <<"2", "C">>
          [] ch = ":"  -> <<"3", "A">>
          [] ch = "["  -> <<"5", "B">>
          [] ch = "]"  -> <<"5", "D">>
          [] ch = "{"  -> <<"7", "B">>
          [] ch = "}"  -> <<"7", "D">> ]

\* quote_plus on one character: unreserved kept, space to '+', else %XX
quote_plus_char(ch) ==
    IF ch \in Unreserved THEN <<ch>>
    ELSE IF ch = " " THEN <<"+">>
    ELSE <<"%">> \o HexOf[ch]

RECURSIVE quote_plus(_)
quote_plus(s) ==
    IF s = <<>> THEN <<>>
    ELSE quote_plus_char(Head(s)) \o quote_plus(Tail(s))

(***************************************************************************)
(* request.args.get("sport"): None when the parameter is absent, else the  *)
(* decoded string.                                                         *)
(***************************************************************************)
None == [isNone |-> TRUE, s |-> <<>>]
Str(s) == [isNone |-> FALSE, s |-> s]

\* variant: the test "sport is None"
not_isNone(sport) == sport.isNone

\* variant: the test "not sport or not sport.strip()"
not_strip(sport) ==
    sport.isNone \/ \A i \in 1..Len(sport.s) : sport.s[i] = " "

\* Python truthiness of an Optional[str], the test "not sport" of app.py:94
not(sport) == sport.isNone \/ Len(sport.s) = 0

(***************************************************************************)
(* URL construction (the f-strings of app.py:45, 71, 100, 122).            *)
(***************************************************************************)
Url(base, path, input) == [base |-> base, path |-> path, input |-> input]

venues_url(base) == Url(base, "/programme.getProgrammeVenues", VenuesInput)
sportslist_url(base) == Url(base, "/activity.listForProgrammes", SportslistInput)
capacity_url(base) == Url(base, "/pass.getFacilityCapacities", CapacityInput)
activity_url(base, sport) ==
    Url(base, "/programme.listV2",
        ActivityInputPrefix \o quote_plus(sport) \o ActivityInputSuffix)

(***************************************************************************)
(* JSON texts.  A text is a sequence of tokens; a member token stands for  *)
(* "key":"value".  json_loads is the decoder behind response.json(),       *)
(* json_dumps the encoder behind flask.jsonify (sorted keys, compact       *)
(* separators, a trailing newline).                                        *)
(***************************************************************************)
Tok(t, k, v) == [t |-> t, k |-> k, v |-> v]
LB == Tok("{", "", "")
RB == Tok("}", "", "")
COMMA == Tok(",", "", "")
WS == Tok(" ", "", "")
NL == Tok("\n", "", "")
Raw(x) == Tok("raw", "", x)
M(k, v) == Tok("member", k, v)

IsSpace(tok) == tok.t \in {" ", "\n"}

EmptyDict == [k \in {} |-> ""]

\* members of the inner part of an object: member (, member)*
RECURSIVE MembersOK(_, _)
MembersOK(toks, i) ==
    IF i > Len(toks) THEN TRUE
    ELSE /\ toks[i].t = (IF i % 2 = 1 THEN "member" ELSE ",")
         /\ MembersOK(toks, i + 1)

\* the dict of the members, a later duplicate key replacing an earlier one
RECURSIVE MembersDict(_, _)
MembersDict(toks, i) ==
    IF i < 1 THEN EmptyDict
    ELSE IF toks[i].t = "member"
         THEN (toks[i].k :> toks[i].v) @@ MembersDict(toks, i - 1)
         ELSE MembersDict(toks, i - 1)

\* json.loads: [ok, value]; ok = FALSE is a decode error
json_loads(text) ==
    LET toks == SelectSeq(text, LAMBDA tok : ~IsSpace(tok))
        n == Len(toks)
        inner == IF n >= 2 THEN SubSeq(toks, 2, n - 1) ELSE <<>>
        ok == /\ n >= 2
              /\ toks[1] = LB
              /\ toks[n] = RB
              /\ Len(inner) # 0 => Len(inner) % 2 = 1
              /\ MembersOK(inner, 1)
    IN  [ok |-> ok, value |-> IF ok THEN MembersDict(inner, Len(inner)) ELSE EmptyDict]

\* the order sort_keys puts the keys of the model in
KeyOrder == <<"a", "b", "details", "error">>

RECURSIVE DumpMembers(_, _)
DumpMembers(d, ks) ==
    IF ks = <<>> THEN <<>>
    ELSE <<M(Head(ks), d[Head(ks)])>>
         \o (IF Len(ks) > 1 THEN <<COMMA>> ELSE <<>>)
         \o DumpMembers(d, Tail(ks))

json_dumps(d) ==
    <<LB>> \o DumpMembers(d, SelectSeq(KeyOrder, LAMBDA k : k \in DOMAIN d)) \o <<RB, NL>>

\* an outbound response: "return jsonify(data), status"
NoResponse == [status |-> 0, data |-> EmptyDict, body |-> <<>>]
jsonify(data, status) == [status |-> status, data |-> data, body |-> json_dumps(data)]

(***************************************************************************)
(* Exceptions and the upstream call.                                       *)
(***************************************************************************)
\* an exception: the two base classes the except clauses test, and str(e)
Exc(isReq, isVal, msg) == [isRequestException |-> isReq, isValueError |-> isVal, msg |-> msg]
NoExc == Exc(FALSE, FALSE, "")

\* the classes response.json() can raise on a malformed body: a plain
\* ValueError subclass (json / simplejson decoder, requests < 2.27) or
\* requests.exceptions.JSONDecodeError, which derives from both
\* RequestException and ValueError (requests >= 2.27)
DecoderBuilds == {"ValueError", "RequestsJSONDecodeError"}
JSONDecodeError(dec) == Exc(dec = "RequestsJSONDecodeError", TRUE, "Expecting value")

\* what one requests.get can come to: a response (status, body text), a
\* transport failure (a RequestException, no response), or any other exception
HttpResponse(st, body) == [kind |-> "response", status |-> st, body |-> body, msg |-> ""]
TransportFailure(msg) == [kind |-> "transport", status |-> 0, body |-> <<>>, msg |-> msg]
OtherFailure(msg) == [kind |-> "other", status |-> 0, body |-> <<>>, msg |-> msg]
NoOutcome == [kind |-> "none", status |-> 0, body |-> <<>>, msg |-> ""]

\* upstream bodies: canonical JSON, JSON with other key order and spacing,
\* JSON with a repeated key, the empty object, and three malformed texts
BodyCanonical == <<LB, M("a", "x"), COMMA, M("b", "y"), RB, NL>>
BodyLoose == <<LB, WS, M("b", "y"), COMMA, WS, M("a", "x"), WS, RB>>
BodyRepeat == <<LB, M("a", "x"), COMMA, M("a", "y"), RB>>
BodyEmptyObject == <<LB, RB>>
BodyHtml == <<Raw("<html>")>>
BodyNothing == <<>>
BodyTruncated == <<LB, M("a", "x"), COMMA>>
Bodies ==
    {BodyCanonical, BodyLoose, BodyRepeat, BodyEmptyObject, BodyHtml, BodyNothing, BodyTruncated}

Statuses == {101, 200, 201, 304, 404, 500}
TransportMessages == {"Connection refused", "Name or service not known", "Read timed out"}

UpstreamOutcomes ==
    {HttpResponse(st, b) : st \in Statuses, b \in Bodies}
      \cup {TransportFailure(m) : m \in TransportMessages}
      \cup {OtherFailure("unexpected")}

\* the outcomes used when several calls run at once: one of each class
CoreOutcomes ==
    {HttpResponse(200, BodyLoose), HttpResponse(200, BodyHtml), HttpResponse(404, BodyHtml),
     TransportFailure("Connection refused"), OtherFailure("unexpected")}

\* variant: only server errors raise
raise_for_status_5xx(st) == 500 <= st /\ st < 600

\* Response.raise_for_status: HTTPError exactly for 400 <= status < 600
raise_for_status(st) == 400 <= st /\ st < 600

Returned(v) == [raised |-> FALSE, exc |-> NoExc, value |-> v]
Raised(e) == [raised |-> TRUE, exc |-> e, value |-> NoResponse]

\* variant: the upstream status code is relayed
try_fetch_relay_status(o, dec) ==
    IF o.kind = "transport" THEN Raised(Exc(TRUE, FALSE, o.msg))
    ELSE IF o.kind = "other" THEN Raised(Exc(FALSE, FALSE, o.msg))
    ELSE IF raise_for_status(o.status) THEN Raised(Exc(TRUE, FALSE, "HTTPError"))
    ELSE LET data == json_loads(o.body)
         IN  IF ~data.ok THEN Raised(JSONDecodeError(dec))
             ELSE Returned(jsonify(data.value, o.status))

\* the body of the try block after the URL is built (app.py:47-50):
\* requests.get, raise_for_status, response.json(), return jsonify(data), 200
try_fetch(o, dec) ==
    IF o.kind = "transport" THEN Raised(Exc(TRUE, FALSE, o.msg))
    ELSE IF o.kind = "other" THEN Raised(Exc(FALSE, FALSE, o.msg))
    ELSE IF raise_for_status(o.status) THEN Raised(Exc(TRUE, FALSE, "HTTPError"))
    ELSE LET data == json_loads(o.body)
         IN  IF ~data.ok THEN Raised(JSONDecodeError(dec))
             ELSE Returned(jsonify(data.value, 200))

\* the except clauses, in the order the handlers test them
get_venues_respond(o, dec) ==
    LET r == try_fetch(o, dec)
    IN  IF ~r.raised THEN r.value
        ELSE IF r.exc.isRequestException
             THEN jsonify([error |-> "Failed to fetch venues data.", details |-> r.exc.msg], 500)
        ELSE IF r.exc.isValueError
             THEN jsonify([error |-> "Failed to parse API response for venues.", details |-> r.exc.msg], 500)
        ELSE jsonify([error |-> "An unexpected server error occurred for venues.", details |-> r.exc.msg], 500)

\* variant: the messages of get_venues left in place
get_sportslist_respond_venues(o, dec) == get_venues_respond(o, dec)

get_sportslist_respond(o, dec) ==
    LET r == try_fetch(o, dec)
    IN  IF ~r.raised THEN r.value
        ELSE IF r.exc.isRequestException
             THEN jsonify([error |-> "Failed to fetch sports list data.", details |-> r.exc.msg], 500)
        ELSE IF r.exc.isValueError
             THEN jsonify([error |-> "Failed to parse API response for sports list.", details |-> r.exc.msg], 500)
        ELSE jsonify([error |-> "An unexpected server error occurred for sports list.", details |-> r.exc.msg], 500)

get_activity_respond(o, dec) ==
    LET r == try_fetch(o, dec)
    IN  IF ~r.raised THEN r.value
        ELSE IF r.exc.isRequestException
             THEN jsonify([error |-> "Failed to fetch activity data.", details |-> r.exc.msg], 500)
        ELSE IF r.exc.isValueError
             THEN jsonify([error |-> "Failed to parse API response for activity.", details |-> r.exc.msg], 500)
        ELSE jsonify([error |-> "An unexpected server error occurred for activity.", details |-> r.exc.msg], 500)

\* variant: the last clause answers without details
get_capacity_respond_bare(o, dec) ==
    LET r == try_fetch(o, dec)
    IN  IF ~r.raised THEN r.value
        ELSE IF r.exc.isRequestException
             THEN jsonify([error |-> "Failed to fetch capacity data.", details |-> r.exc.msg], 500)
        ELSE IF r.exc.isValueError
             THEN jsonify([error |-> "Failed to parse API response for capacity.", details |-> r.exc.msg], 500)
        ELSE jsonify([error |-> "An unexpected server error occurred for capacity."], 500)

get_capacity_respond(o, dec) ==
    LET r == try_fetch(o, dec)
    IN  IF ~r.raised THEN r.value
        ELSE IF r.exc.isRequestException
             THEN jsonify([error |-> "Failed to fetch capacity data.", details |-> r.exc.msg], 500)
        ELSE IF r.exc.isValueError
             THEN jsonify([error |-> "Failed to parse API response for capacity.", details |-> r.exc.msg], 500)
        ELSE jsonify([error |-> "An unexpected server error occurred for capacity.", details |-> r.exc.msg], 500)

\* the 400 of get_activity (app.py:95)
sport_required == jsonify([error |-> "Sport query parameter is required."], 400)

(***************************************************************************)
(* State                                                                   *)
(***************************************************************************)
VARIABLES
    headers,   \* the module global BROWSER_HEADERS
    baseUrl,   \* the module global ACTIVESG_BASE_URL
    decoder,   \* which exception class the installed requests raises on bad JSON
    pc,        \* per call: "idle", "start", "wait" (inside requests.get), "done"
    op,        \* per call: the route of the inbound request
    sport,     \* per call: request.args.get("sport")
    req,       \* per call: the upstream request it has issued (url, headers)
    outcome,   \* per call: what requests.get came to
    resp,      \* per call: the outbound response
    ncalls,    \* per call: upstream GETs issued
    nresp      \* per call: outbound responses returned

vars == <<headers, baseUrl, decoder, pc, op, sport, req, outcome, resp, ncalls, nresp>>

NoRequest == [url |-> Url("", "", <<>>), headers |-> EmptyDict]

\* the sport strings drawn as inputs
Alphabet == {"a", " ", "+", "&", "%", "\""}
RECURSIVE Strings(_)
Strings(n) ==
    IF n = 0 THEN {<<>>}
    ELSE LET shorter == Strings(n - 1)
         IN  shorter \cup {Append(s, ch) : s \in {t \in shorter : Len(t) = n - 1}, ch \in Alphabet}
SportInputs == {None} \cup {Str(s) : s \in Strings(MaxSportLen)}
CoreSports == {None, Str(<<>>), Str(<<" ">>), Str(<<"a">>)}

Init ==
    /\ headers = BROWSER_HEADERS
    /\ baseUrl = ACTIVESG_BASE_URL
    /\ decoder \in DecoderBuilds
    /\ pc = [c \in Calls |-> "idle"]
    /\ op = [c \in Calls |-> "none"]
    /\ sport = [c \in Calls |-> None]
    /\ req = [c \in Calls |-> NoRequest]
    /\ outcome = [c \in Calls |-> NoOutcome]
    /\ resp = [c \in Calls |-> NoResponse]
    /\ ncalls = [c \in Calls |-> 0]
    /\ nresp = [c \in Calls |-> 0]

(***************************************************************************)
(* Actions                                                                 *)
(***************************************************************************)
\* an inbound GET is routed to its handler; only /api/activity reads the query
Inbound(c, o, a) ==
    /\ pc[c] = "idle"
    /\ o # "activity" => a = None
    /\ pc' = [pc EXCEPT ![c] = "start"]
    /\ op' = [op EXCEPT ![c] = o]
    /\ sport' = [sport EXCEPT ![c] = a]
    /\ UNCHANGED <<headers, baseUrl, decoder, req, outcome, resp, ncalls, nresp>>

\* variant: a Referer for the request is stored in the shared dict
Send_referer(c, url) ==
    /\ headers' = ("Referer" :> url.path) @@ headers
    /\ req' = [req EXCEPT ![c] = [url |-> url, headers |-> headers']]
    /\ ncalls' = [ncalls EXCEPT ![c] = @ + 1]
    /\ pc' = [pc EXCEPT ![c] = "wait"]
    /\ UNCHANGED <<baseUrl, decoder, op, sport, outcome, resp, nresp>>

\* url = f"..."; requests.get(url, headers=BROWSER_HEADERS) is entered
Send(c, url) ==
    /\ req' = [req EXCEPT ![c] = [url |-> url, headers |-> headers]]
    /\ ncalls' = [ncalls EXCEPT ![c] = @ + 1]
    /\ pc' = [pc EXCEPT ![c] = "wait"]
    /\ UNCHANGED <<headers, baseUrl, decoder, op, sport, outcome, resp, nresp>>

\* requests.get has come to o and the handler returns r
Return(c, o, r) ==
    /\ outcome' = [outcome EXCEPT ![c] = o]
    /\ resp' = [resp EXCEPT ![c] = r]
    /\ nresp' = [nresp EXCEPT ![c] = @ + 1]
    /\ pc' = [pc EXCEPT ![c] = "done"]
    /\ UNCHANGED <<headers, baseUrl, decoder, op, sport, req, ncalls>>

get_venues_call(c) ==
    /\ pc[c] = "start" /\ op[c] = "venues"
    /\ Send(c, venues_url(baseUrl))

\* variant: one more attempt after a transport failure
get_venues_return_retry(c, o) ==
    /\ pc[c] = "wait" /\ op[c] = "venues"
    /\ IF o.kind = "transport" /\ ncalls[c] < 2
       THEN /\ pc' = [pc EXCEPT ![c] = "start"]
            /\ UNCHANGED <<headers, baseUrl, decoder, op, sport, req, outcome, resp, ncalls, nresp>>
       ELSE Return(c, o, get_venues_respond(o, decoder))

get_venues_return(c, o) ==
    /\ pc[c] = "wait" /\ op[c] = "venues"
    /\ Return(c, o, get_venues_respond(o, decoder))

get_sportslist_call(c) ==
    /\ pc[c] = "start" /\ op[c] = "sportslist"
    /\ Send(c, sportslist_url(baseUrl))

get_sportslist_return(c, o) ==
    /\ pc[c] = "wait" /\ op[c] = "sportslist"
    /\ Return(c, o, get_sportslist_respond(o, decoder))

\* app.py:93-95: the parameter check, before the try block
get_activity_reject(c) ==
    /\ pc[c] = "start" /\ op[c] = "activity"
    /\ not(sport[c])
    /\ resp' = [resp EXCEPT ![c] = sport_required]
    /\ nresp' = [nresp EXCEPT ![c] = @ + 1]
    /\ pc' = [pc EXCEPT ![c] = "done"]
    /\ UNCHANGED <<headers, baseUrl, decoder, op, sport, req, outcome, ncalls>>

get_activity_call(c) ==
    /\ pc[c] = "start" /\ op[c] = "activity"
    /\ ~not(sport[c])
    /\ Send(c, activity_url(baseUrl, sport[c].s))

get_activity_return(c, o) ==
    /\ pc[c] = "wait" /\ op[c] = "activity"
    /\ Return(c, o, get_activity_respond(o, decoder))

get_capacity_call(c) ==
    /\ pc[c] = "start" /\ op[c] = "capacity"
    /\ Send(c, capacity_url(baseUrl))

get_capacity_return(c, o) ==
    /\ pc[c] = "wait" /\ op[c] = "capacity"
    /\ Return(c, o, get_capacity_respond(o, decoder))

\* the server has written the response; the worker takes the next request
Complete(c) ==
    /\ pc[c] = "done"
    /\ pc' = [pc EXCEPT ![c] = "idle"]
    /\ op' = [op EXCEPT ![c] = "none"]
    /\ sport' = [sport EXCEPT ![c] = None]
    /\ outcome' = [outcome EXCEPT ![c] = NoOutcome]
    /\ resp' = [resp EXCEPT ![c] = NoResponse]
    /\ req' = [req EXCEPT ![c] = NoRequest]
    /\ ncalls' = [ncalls EXCEPT ![c] = 0]
    /\ nresp' = [nresp EXCEPT ![c] = 0]
    /\ UNCHANGED <<headers, baseUrl, decoder>>

\* one step of the handler serving call c, its upstream outcome drawn from outs
Handler(c, outs) ==
    \/ get_venues_call(c)
    \/ \E o \in outs : get_venues_return(c, o)
    \/ get_sportslist_call(c)
    \/ \E o \in outs : get_sportslist_return(c, o)
    \/ get_activity_reject(c)
    \/ get_activity_call(c)
    \/ \E o \in outs : get_activity_return(c, o)
    \/ get_capacity_call(c)
    \/ \E o \in outs : get_capacity_return(c, o)

\* one call at a time, every sport string and every upstream outcome
Next ==
    \/ \E o \in Ops, a \in SportInputs : Inbound(1, o, a)
    \/ Handler(1, UpstreamOutcomes)
    \/ Complete(1)

Spec == Init /\ [][Next]_vars

\* NumCalls calls at once, one input and one outcome of each class
ConcNext ==
    \E c \in Calls :
        \/ \E o \in Ops, a \in CoreSports : Inbound(c, o, a)
        \/ Handler(c, CoreOutcomes)
        \/ Complete(c)

ConcSpec == Init /\ [][ConcNext]_vars

\* the server runs every handler it has entered to its return, and
\* requests.get returns or raises
FairSpec == Spec /\ WF_vars(Handler(1, UpstreamOutcomes))

(***************************************************************************)
(* Vocabulary of the properties                                            *)
(***************************************************************************)
Done(c) == pc[c] = "done"
GotResponse(c) == Done(c) /\ outcome[c].kind = "response"
Is2xx(st) == 200 <= st /\ st <= 299
ErrorOf(r) == IF "error" \in DOMAIN r.data THEN r.data["error"] ELSE ""
DetailsOf(r) == IF "details" \in DOMAIN r.data THEN r.data["details"] ELSE ""

\* the messages the specification gives for each resource
FetchFailure ==
    [ venues     |-> "Failed to fetch venues data.",
      sportslist |-> "Failed to fetch sports list data.",
      activity   |-> "Failed to fetch activity data.",
      capacity   |-> "Failed to fetch capacity data." ]
ParseFailure ==
    [ venues     |-> "Failed to parse API response for venues.",
      sportslist |-> "Failed to parse API response for sports list.",
      activity   |-> "Failed to parse API response for activity.",
      capacity   |-> "Failed to parse API response for capacity." ]

\* urllib.parse.unquote_plus, the inverse the upstream applies to "input":
\* a '%' followed by the two hex digits of a character stands for that
\* character, '+' stands for a space.  (A hex digit is never '%', so a '%'
\* is never itself part of an earlier escape.)
unquote_plus(s) ==
    LET IsEscape(i) ==
            /\ s[i] = "%" /\ i + 2 <= Len(s)
            /\ \E ch \in DOMAIN HexOf : HexOf[ch] = <<s[i + 1], s[i + 2]>>
        Consumed(i) == (i > 1 /\ IsEscape(i - 1)) \/ (i > 2 /\ IsEscape(i - 2))
        DecodeAt(i) ==
            IF IsEscape(i) THEN CHOOSE ch \in DOMAIN HexOf : HexOf[ch] = <<s[i + 1], s[i + 2]>>
            ELSE IF s[i] = "+" THEN " "
            ELSE s[i]
        kept == SelectSeq([i \in 1..Len(s) |-> i], LAMBDA i : ~Consumed(i))
    IN  [j \in 1..Len(kept) |-> DecodeAt(kept[j])]

\* the characters of a JSON string from position i up to its closing quote
RECURSIVE ReadString(_, _)
ReadString(text, i) ==
    IF i > Len(text) \/ text[i] = "\"" THEN <<>>
    ELSE <<text[i]>> \o ReadString(text, i + 1)

\* the decoded payload up to the opening quote of the searchQuery value
SearchQueryLead == unquote_plus(ActivityInputPrefix)

\* the value in the searchQuery position of a decoded payload
SearchQueryOf(payload) ==
    IF Len(payload) >= Len(SearchQueryLead)
       /\ SubSeq(payload, 1, Len(SearchQueryLead)) = SearchQueryLead
    THEN ReadString(payload, Len(SearchQueryLead) + 1)
    ELSE <<"?">>

IsBlank(a) == ~a.isNone /\ Len(a.s) > 0 /\ \A i \in 1..Len(a.s) : a.s[i] = " "
Pluses(n) == [i \in 1..n |-> "+"]

(***************************************************************************)
(* C1                                                                      *)
(***************************************************************************)
Relayed(c) == GotResponse(c) /\ Is2xx(outcome[c].status) /\ json_loads(outcome[c].body).ok

\* C1 as stated: a 2xx upstream response with valid JSON body B is answered
\* with status 200 and a body equal to B, byte for byte.
C1_BodyUnmodified ==
    \A c \in Calls : Relayed(c) => resp[c].status = 200 /\ resp[c].body = outcome[c].body

\* C1 amended: a 2xx upstream response with valid JSON body B is answered
\* with status 200 and a body that is valid JSON and decodes to the same
\* value as B (the text itself is re-serialised).
C1_SameJsonValue ==
    \A c \in Calls :
        Relayed(c) =>
            /\ resp[c].status = 200
            /\ json_loads(resp[c].body).ok
            /\ json_loads(resp[c].body).value = json_loads(outcome[c].body).value

C1_Witness ==
    \E c \in Calls :
        /\ Relayed(c) /\ op[c] = "activity"
        /\ outcome[c].status = 201 /\ outcome[c].body = BodyLoose
        /\ resp[c].body # outcome[c].body

(***************************************************************************)
(* C2                                                                      *)
(***************************************************************************)
Missing(a) == a.isNone \/ a.s = <<>>

\* C2: /api/activity with sport absent or empty never issues an upstream
\* call and is answered 400 with {error: "Sport query parameter is required."}.
C2_MissingSport ==
    \A c \in Calls :
        (op[c] = "activity" /\ Missing(sport[c])) =>
            /\ ncalls[c] = 0
            /\ pc[c] # "wait"
            /\ Done(c) => /\ resp[c].status = 400
                          /\ resp[c].data = [error |-> "Sport query parameter is required."]

C2_Witness ==
    \E c \in Calls :
        /\ Done(c) /\ op[c] = "activity" /\ sport[c] = Str(<<>>)
        /\ resp[c].status = 400 /\ ncalls[c] = 0

(***************************************************************************)
(* C3                                                                      *)
(***************************************************************************)
\* C3: a 2xx upstream response whose body is not valid JSON is answered 500
\* with the parse-failure message of the resource, whatever exception class
\* the decoder raises.
C3_ParseFailure ==
    \A c \in Calls :
        (GotResponse(c) /\ Is2xx(outcome[c].status) /\ ~json_loads(outcome[c].body).ok) =>
            /\ resp[c].status = 500
            /\ ErrorOf(resp[c]) = ParseFailure[op[c]]

(***************************************************************************)
(* C4                                                                      *)
(***************************************************************************)
\* C4 as stated: every upstream status outside 200..299 is answered 500
\* with the fetch-failure message of the resource.
C4_Non2xxFails ==
    \A c \in Calls :
        (GotResponse(c) /\ ~Is2xx(outcome[c].status)) =>
            /\ resp[c].status = 500
            /\ ErrorOf(resp[c]) = FetchFailure[op[c]]

\* C4 amended: every upstream status in 400..599 is answered 500 with the
\* fetch-failure message of the resource, never 200.
C4_4xx5xxFails ==
    \A c \in Calls :
        (GotResponse(c) /\ 400 <= outcome[c].status /\ outcome[c].status <= 599) =>
            /\ resp[c].status = 500
            /\ ErrorOf(resp[c]) = FetchFailure[op[c]]

C4_Witness ==
    \E c \in Calls :
        /\ GotResponse(c) /\ outcome[c].status = 404 /\ outcome[c].body = BodyCanonical
        /\ resp[c].status = 500

(***************************************************************************)
(* C5                                                                      *)
(***************************************************************************)
\* C5: a transport failure is answered 500 with the fetch-failure message
\* of the same operation's resource and a non-empty details field.
C5_TransportFailure ==
    \A c \in Calls :
        (Done(c) /\ outcome[c].kind = "transport") =>
            /\ resp[c].status = 500
            /\ ErrorOf(resp[c]) = FetchFailure[op[c]]
            /\ "details" \in DOMAIN resp[c].data
            /\ DetailsOf(resp[c]) # ""

C5_Witness ==
    \E c \in Calls :
        /\ Done(c) /\ op[c] = "sportslist"
        /\ outcome[c] = TransportFailure("Read timed out")
        /\ DetailsOf(resp[c]) = "Read timed out"

(***************************************************************************)
(* C6                                                                      *)
(***************************************************************************)
\* C6 as stated: a sport of only whitespace is answered 400 and no upstream
\* call is made.
C6_BlankIsMissing ==
    \A c \in Calls :
        (op[c] = "activity" /\ IsBlank(sport[c])) =>
            /\ ncalls[c] = 0
            /\ Done(c) => resp[c].status = 400

\* C6 amended: a sport of only whitespace is forwarded like any other
\* non-empty sport: one upstream call whose searchQuery is the spaces
\* encoded as '+', and a 200 or 500 answer, never 400.
C6_BlankIsForwarded ==
    \A c \in Calls :
        (op[c] = "activity" /\ IsBlank(sport[c])) =>
            /\ pc[c] = "wait" =>
                   /\ ncalls[c] = 1
                   /\ req[c].url.input =
                          ActivityInputPrefix \o Pluses(Len(sport[c].s)) \o ActivityInputSuffix
            /\ Done(c) => ncalls[c] = 1 /\ resp[c].status \in {200, 500}

C6_Witness ==
    \E c \in Calls :
        /\ Done(c) /\ op[c] = "activity" /\ sport[c] = Str(<<" ", " ">>)
        /\ ncalls[c] = 1 /\ resp[c].status = 200

(***************************************************************************)
(* C7                                                                      *)
(***************************************************************************)
\* C7: decoding the input payload of the activity URL and reading the value
\* in the searchQuery position gives back the sport string.
C7_RoundTrip ==
    \A c \in Calls :
        (ncalls[c] > 0 /\ op[c] = "activity") =>
            SearchQueryOf(unquote_plus(req[c].url.input)) = sport[c].s

(***************************************************************************)
(* C8                                                                      *)
(***************************************************************************)
\* C8 as stated: every response has a JSON body and every failure response
\* carries the same fields, error and details.
C8_OneFailureShape ==
    \A c \in Calls :
        Done(c) =>
            /\ json_loads(resp[c].body).ok
            /\ resp[c].status # 200 => DOMAIN resp[c].data = {"error", "details"}

\* C8 amended: every response has a JSON body; every 500 carries exactly
\* error and details, and the 400 carries error alone.
C8_TwoFailureShapes ==
    \A c \in Calls :
        Done(c) =>
            /\ json_loads(resp[c].body).ok
            /\ json_loads(resp[c].body).value = resp[c].data
            /\ resp[c].status = 500 => DOMAIN resp[c].data = {"error", "details"}
            /\ resp[c].status = 400 => DOMAIN resp[c].data = {"error"}

C8_Witness ==
    \E c \in Calls :
        /\ Done(c) /\ resp[c].status = 400
        /\ DOMAIN resp[c].data = {"error"}

(***************************************************************************)
(* C9                                                                      *)
(***************************************************************************)
OneResponse ==
    \A c \in Calls :
        /\ ncalls[c] <= 1
        /\ nresp[c] <= 1
        /\ Done(c) => nresp[c] = 1 /\ resp[c].status \in {200, 400, 500}
        /\ ~Done(c) => nresp[c] = 0

\* C9: every inbound call ends with exactly one response, of status 200,
\* 400 or 500, after at most one upstream GET.
C9_ExactlyOneResponse ==
    /\ []OneResponse
    /\ \A c \in Calls : (pc[c] = "start") ~> Done(c)

C9_Witness ==
    \E c \in Calls :
        /\ Done(c) /\ outcome[c].kind = "other"
        /\ ncalls[c] = 1 /\ nresp[c] = 1 /\ resp[c].status = 500

(***************************************************************************)
(* C10                                                                     *)
(***************************************************************************)
SameCall(c, d) == op[c] = op[d] /\ sport[c] = sport[d] /\ outcome[c] = outcome[d]

\* C10: the header template and the base URL are never written, every
\* upstream request carries the template, and calls with the same operation,
\* sport and upstream outcome get the same response whatever else runs.
C10_Independent ==
    /\ headers = BROWSER_HEADERS
    /\ baseUrl = ACTIVESG_BASE_URL
    /\ \A c \in Calls : ncalls[c] > 0 => req[c].headers = BROWSER_HEADERS
    /\ \A c, d \in Calls : (Done(c) /\ Done(d) /\ SameCall(c, d)) => resp[c] = resp[d]

C10_Witness ==
    \E c, d \in Calls :
        /\ c # d /\ Done(c) /\ Done(d) /\ SameCall(c, d)
        /\ op[c] = "activity" /\ outcome[c].kind = "transport"
        /\ resp[c].status = 500 /\ resp[d] = resp[c]
        /\ req[c].headers = BROWSER_HEADERS /\ req[d].headers = BROWSER_HEADERS
====
